---- MODULE Spec2Model ----
(***************************************************************************)
(* CloudWalk Operations Intelligence: the anomaly detector of              *)
(* src/src/alerts.py over the transactions table of src/src/database.py.   *)
(*                                                                         *)
(* Numbers.  The detector computes with floating point numbers; the model  *)
(* computes with exact values and ignores rounding.  A number is a record  *)
(* [n, d] standing for n/d in lowest terms with d > 0; d = 0 stands for    *)
(* the IEEE specials: [0, 0] is NaN, [1, 0] is +inf and [-1, 0] is -inf.   *)
(* A standard deviation is a square root, so a z-score is kept as a sign   *)
(* and a square: [s, q] stands for s * sqrt(q).                            *)
(***************************************************************************)
EXTENDS Integers, Sequences, FiniteSets, TLC

VARIABLES
    rows,                \* the rows of table "transactions"
    scanOrder,           \* the order in which SELECT DISTINCT product yields the products
    window,              \* AnomalyDetector.window
    warning_threshold,   \* AnomalyDetector.warning_threshold
    critical_threshold,  \* AnomalyDetector.critical_threshold
    failing,             \* the queries the store fails on, by the slice they read
    input,               \* the arguments of the next direct call of a helper method
    ret,                 \* the outcome of the last call: [op, status, value]
    conversation_history, \* CloudWalkAgent.conversation_history
    exchanges,           \* the exchanges the agent has recorded so far (they number the texts)
    _connection,         \* Database._connection
    connections,         \* the sqlite connections that are open
    created,             \* the connections sqlite3.connect has made so far
    pc                   \* where each thread stands inside Database.connect

detectorVars ==
    <<rows, scanOrder, window, warning_threshold, critical_threshold, failing, input>>

agentVars == <<conversation_history, exchanges>>

databaseVars == <<_connection, connections, created, pc>>

vars == <<detectorVars, ret, agentVars, databaseVars>>

----------------------------------------------------------------------------
(* Bounds of the model *)

MaxDay == 3       \* days are 1..MaxDay
MaxRows == 4      \* rows stored in the table of the orchestration specification
MaxWindow == 3    \* window sizes are 1..MaxWindow in the single-series specification
MaxExchanges == 12    \* exchanges an agent records
MaxConnections == 3   \* connections a Database opens

----------------------------------------------------------------------------
(* Exact arithmetic *)

Abs(x) == IF x < 0 THEN -x ELSE x

Sign(x) == IF x < 0 THEN -1 ELSE IF x > 0 THEN 1 ELSE 0

RECURSIVE GCD(_, _)
GCD(a, b) == IF b = 0 THEN a ELSE GCD(b, a % b)

Rat(n, d) ==
    IF d = 0 THEN [n |-> Sign(n), d |-> 0]
    ELSE LET g == GCD(Abs(n), Abs(d))
             s == Sign(d)
         IN  [n |-> s * (n \div g), d |-> s * (d \div g)]

Int2Rat(i) == [n |-> i, d |-> 1]

NaN == [n |-> 0, d |-> 0]

Zero == [n |-> 0, d |-> 1]

IsNaN(x) == x.d = 0 /\ x.n = 0

IsFinite(x) == x.d # 0

RNeg(a) == [n |-> -a.n, d |-> a.d]

RAdd(a, b) ==
    IF IsNaN(a) \/ IsNaN(b) THEN NaN
    ELSE IF a.d = 0 THEN (IF b.d = 0 /\ b.n # a.n THEN NaN ELSE a)
    ELSE IF b.d = 0 THEN b
    ELSE Rat(a.n * b.d + b.n * a.d, a.d * b.d)

RSub(a, b) == RAdd(a, RNeg(b))

RMul(a, b) ==
    IF IsNaN(a) \/ IsNaN(b) THEN NaN
    ELSE IF a.d = 0 \/ b.d = 0 THEN [n |-> Sign(a.n) * Sign(b.n), d |-> 0]
    ELSE Rat(a.n * b.n, a.d * b.d)

RInv(a) ==
    IF IsNaN(a) THEN NaN
    ELSE IF a.d = 0 THEN Zero
    ELSE IF a.n = 0 THEN [n |-> 1, d |-> 0]
    ELSE Rat(a.d, a.n)

RDiv(a, b) == RMul(a, RInv(b))

\* a <= b; every comparison with NaN is false
RLe(a, b) ==
    IF IsNaN(a) \/ IsNaN(b) THEN FALSE
    ELSE IF a.d = 0 /\ b.d = 0 THEN a.n <= b.n
    ELSE IF a.d = 0 THEN a.n < 0
    ELSE IF b.d = 0 THEN b.n > 0
    ELSE a.n * b.d <= b.n * a.d

RSign(a) == Sign(a.n)

\* s * sqrt(q), with q >= 0
Surd(s, q) == IF IsNaN(q) THEN [s |-> 0, q |-> NaN]
              ELSE IF q.n = 0 THEN [s |-> 0, q |-> Zero]
              ELSE [s |-> s, q |-> q]

SurdNaN == [s |-> 0, q |-> NaN]

SurdZero == [s |-> 0, q |-> Zero]

SurdIsNaN(x) == IsNaN(x.q)

SurdIsZero(x) == ~IsNaN(x.q) /\ x.q.n = 0

SurdAbs(x) == [s |-> Abs(x.s), q |-> x.q]

\* x >= t for a square root x and a number t; false when either is NaN
SurdGe(x, t) ==
    IF SurdIsNaN(x) \/ IsNaN(t) THEN FALSE
    ELSE IF t.n <= 0
         THEN x.s >= 0 \/ RLe(x.q, RMul(t, t))
         ELSE x.s > 0 /\ RLe(RMul(t, t), x.q)

\* number / square root
RDivSurd(a, x) ==
    IF IsNaN(a) \/ SurdIsNaN(x) THEN SurdNaN
    ELSE Surd(RSign(a) * x.s, RDiv(RMul(a, a), x.q))

----------------------------------------------------------------------------
(* The transactions table and its queries *)

ProductNames == {"pix", "pos"}

\* the (amount_transacted, quantity_transactions) pairs a stored row may hold
RowValues == {<<0, 1>>, <<1, 2>>}

\* the pairs of the single-series specification
SeriesValues == {<<-1, 1>>, <<0, 1>>, <<1, 2>>, <<2, 4>>}

Days == 1..MaxDay

RECURSIVE SumOver(_, _)
SumOver(S, col) ==
    IF S = {} THEN 0
    ELSE LET r == CHOOSE x \in S : TRUE
         IN  (IF col = "tpv" THEN r.amount_transacted ELSE r.quantity_transactions)
             + SumOver(S \ {r}, col)

\* SELECT day, SUM(col) FROM transactions [WHERE product = p] GROUP BY day ORDER BY day
RECURSIVE GroupByDay(_, _, _)
GroupByDay(S, col, from) ==
    IF S = {} THEN <<>>
    ELSE LET today == {r \in S : r.day = from}
         IN  (IF today = {} THEN <<>> ELSE <<SumOver(today, col)>>)
             \o GroupByDay(S \ today, col, from + 1)

\* the daily series of check_total_tpv ("tpv") and check_transactions ("txns")
total_series(col) == GroupByDay(rows, col, 1)

\* a product of a row whose product cell is NULL
NullProduct == "<NULL>"

\* the product as the f-string writes it into the query: None becomes 'None'
SqlLiteral(product) == IF product = NullProduct THEN "None" ELSE product

\* the daily TPV series of one product; a NULL product equals no literal
product_series(product) ==
    GroupByDay({r \in rows : r.product = SqlLiteral(product)}, "tpv", 1)

Raised(error) == [status |-> "raised", error |-> error]

Returned(value) == [status |-> "ok", value |-> value]

\* a store that hands back an empty frame for a query that failed
execute_query_swallowing(slice, result) ==
    IF slice \in failing THEN Returned(<<>>) ELSE Returned(result)

\* Database.execute_query: the frame of the query; the error of a query that
\* fails is logged and raised again
execute_query(slice, result) ==
    IF slice \in failing THEN Raised("DatabaseError") ELSE Returned(result)

\* Database.get_unique_values("product")
get_unique_values == execute_query("distinct", scanOrder)

----------------------------------------------------------------------------
(* AnomalyDetector *)

RECURSIVE SeqSum(_, _, _)
SeqSum(s, lo, hi) == IF lo > hi THEN 0 ELSE s[lo] + SeqSum(s, lo + 1, hi)

RECURSIVE SeqSumSq(_, _, _)
SeqSumSq(s, lo, hi) == IF lo > hi THEN 0 ELSE s[lo] * s[lo] + SeqSumSq(s, lo + 1, hi)

\* the observations a rolling statistic needs before it is defined:
\* Series.rolling(window=w) has min_periods = w
min_periods(w) == w

\* series.rolling(window=w).mean() at position i (1-based)
rolling_mean(s, w, i) ==
    IF i < min_periods(w) THEN NaN
    ELSE Rat(SeqSum(s, i - w + 1, i), w)

\* a variance over the observations there are (min_periods = 1)
rolling_var_growing(s, w, i) ==
    IF i < 2 \/ w < 2 THEN NaN
    ELSE IF i < w
         THEN Rat(i * SeqSumSq(s, 1, i) - SeqSum(s, 1, i) * SeqSum(s, 1, i), i * (i - 1))
    ELSE Rat(w * SeqSumSq(s, i - w + 1, i)
               - SeqSum(s, i - w + 1, i) * SeqSum(s, i - w + 1, i),
             w * (w - 1))

\* the square of series.rolling(window=w).std() at position i: the sample
\* variance (ddof = 1) of the last w observations
rolling_var(s, w, i) ==
    IF i < min_periods(w) \/ w < 2 THEN NaN
    ELSE Rat(w * SeqSumSq(s, i - w + 1, i)
               - SeqSum(s, i - w + 1, i) * SeqSum(s, i - w + 1, i),
             w * (w - 1))

rolling_std(s, w, i) == Surd(1, rolling_var(s, w, i))

\* the statistics of the latest row itself
prev_index_latest(s) == Len(s)

\* the position whose statistics a check reads: iloc[-2] if len(df) > 1 else iloc[-1]
prev_index(s) == IF Len(s) > 1 THEN Len(s) - 1 ELSE Len(s)

\* without the std == 0 guard
_calculate_z_score_no_zero_guard(current, mean, std) ==
    IF SurdIsNaN(std) THEN SurdZero
    ELSE RDivSurd(RSub(current, mean), std)

\* without the np.isnan(std) guard
_calculate_z_score_no_nan_guard(current, mean, std) ==
    IF SurdIsZero(std) THEN SurdZero
    ELSE RDivSurd(RSub(current, mean), std)

_calculate_z_score(current, mean, std) ==
    IF SurdIsZero(std) \/ SurdIsNaN(std) THEN SurdZero
    ELSE RDivSurd(RSub(current, mean), std)

\* thresholds compared with > instead of >=
_get_severity_strict(z_score) ==
    LET abs_z == SurdAbs(z_score)
    IN  IF SurdGe(abs_z, critical_threshold)
           /\ ~(SurdAbs(z_score).q = RMul(critical_threshold, critical_threshold)
                 /\ critical_threshold.n >= 0)
        THEN "CRITICAL"
        ELSE IF SurdGe(abs_z, warning_threshold)
                /\ ~(SurdAbs(z_score).q = RMul(warning_threshold, warning_threshold)
                      /\ warning_threshold.n >= 0)
        THEN "WARNING"
        ELSE "NORMAL"

\* thresholds compared with z_score instead of abs(z_score)
_get_severity_signed(z_score) ==
    IF SurdGe(z_score, critical_threshold) THEN "CRITICAL"
    ELSE IF SurdGe(z_score, warning_threshold) THEN "WARNING"
    ELSE "NORMAL"

_get_severity(z_score) ==
    LET abs_z == SurdAbs(z_score)
    IN  IF SurdGe(abs_z, critical_threshold) THEN "CRITICAL"
        ELSE IF SurdGe(abs_z, warning_threshold) THEN "WARNING"
        ELSE "NORMAL"

\* truth value of a float: only zero is falsy (NaN is truthy)
Truthy(x) == ~(x.n = 0 /\ x.d # 0)

\* without the "if expected" guard
change_pct_of_unguarded(current, expected) ==
    RMul(RDiv(RSub(current, expected), expected), Int2Rat(100))

\* ((current - expected) / expected) * 100 if expected else 0
change_pct_of(current, expected) ==
    IF Truthy(expected)
    THEN RMul(RDiv(RSub(current, expected), expected), Int2Rat(100))
    ELSE Zero

\* str.upper() on the names of the model
Upper(str) ==
    CASE str = "tpv" -> "TPV"
      [] str = "transactions" -> "TRANSACTIONS"
      [] str = "pix" -> "PIX"
      [] str = "pos" -> "POS"
      [] str = "total" -> "TOTAL"
      [] OTHER -> str

\* "dropped" for a z-score of zero too
direction_of_nonpositive(z_score) == IF z_score.s <= 0 THEN "dropped" ELSE "spiked"

direction_of(z_score) == IF z_score.s < 0 THEN "dropped" ELSE "spiked"

\* a label that keeps the dimension as stored
_format_message_as_stored(metric, dimension, z_score, change_pct, current, expected) ==
    [label     |-> IF dimension = "total"
                   THEN <<"Total", Upper(metric)>>
                   ELSE <<Upper(metric), "for", dimension>>,
     direction |-> direction_of(z_score),
     change    |-> [n |-> Abs(change_pct.n), d |-> change_pct.d],
     z_score   |-> z_score,
     current   |-> current,
     expected  |-> expected,
     format    |-> "R$ ,.2f"]

\* the message as its parts: label, direction word, the numbers and their formats
_format_message(metric, dimension, z_score, change_pct, current, expected) ==
    [label     |-> IF dimension = "total"
                   THEN <<"Total", Upper(metric)>>
                   ELSE <<Upper(metric), "for", Upper(dimension)>>,
     direction |-> direction_of(z_score),
     change    |-> [n |-> Abs(change_pct.n), d |-> change_pct.d],
     z_score   |-> z_score,
     current   |-> current,
     expected  |-> expected,
     format    |-> "R$ ,.2f"]

\* the message check_transactions builds inline
transactions_message(z_score, change_pct, current, expected) ==
    [label     |-> <<"Transaction", "count">>,
     direction |-> IF z_score.s < 0 THEN "dropped" ELSE "spiked",
     change    |-> [n |-> Abs(change_pct.n), d |-> change_pct.d],
     z_score   |-> z_score,
     current   |-> current,
     expected  |-> expected,
     format    |-> ",.0f"]

\* z-score, severity and change_pct of the latest value
classified(current, expected, prev_std, z_score) ==
    [current    |-> current,
     expected   |-> expected,
     prev_std   |-> prev_std,
     z_score    |-> z_score,
     severity   |-> _get_severity(z_score),
     change_pct |-> change_pct_of(current, expected)]

classify(current, expected, prev_std) ==
    classified(current, expected, prev_std,
               _calculate_z_score(current, expected, prev_std))

\* the statistics every check computes from its series (a non-empty sequence):
\* current = latest value, expected = prev_mean
evaluate(s) ==
    classify(Int2Rat(s[Len(s)]),
             rolling_mean(s, window, prev_index(s)),
             rolling_std(s, window, prev_index(s)))

Alert(metric, dimension, e, message) ==
    [metric         |-> metric,
     dimension      |-> dimension,
     current_value  |-> e.current,
     expected_value |-> e.expected,
     z_score        |-> e.z_score,
     severity       |-> e.severity,
     change_pct     |-> e.change_pct,
     message        |-> message]

tpv_alert(dimension, e) ==
    Alert("tpv", dimension, e,
          _format_message("tpv", dimension, e.z_score, e.change_pct, e.current, e.expected))

transactions_alert(e) ==
    Alert("transactions", "total", e,
          transactions_message(e.z_score, e.change_pct, e.current, e.expected))

\* a check that answers an empty frame with an alert of zeros
check_frame_defaulting(metric, dimension, df) ==
    IF df.status = "raised" THEN df
    ELSE IF Len(df.value) = 0
         THEN Returned(tpv_alert(dimension, classify(Zero, Zero, SurdNaN)))
    ELSE IF metric = "transactions" THEN Returned(transactions_alert(evaluate(df.value)))
    ELSE Returned(tpv_alert(dimension, evaluate(df.value)))

\* the body of a check after its query: the error of the query goes on to the
\* caller, df.iloc[-1] on an empty frame raises IndexError
check_frame(metric, dimension, df) ==
    IF df.status = "raised" THEN df
    ELSE IF Len(df.value) = 0 THEN Raised("IndexError")
    ELSE IF metric = "transactions" THEN Returned(transactions_alert(evaluate(df.value)))
    ELSE Returned(tpv_alert(dimension, evaluate(df.value)))

check_total_tpv == check_frame("tpv", "total", execute_query("tpv", total_series("tpv")))

check_transactions ==
    check_frame("transactions", "total", execute_query("txns", total_series("txns")))

\* a loop body whose query has no WHERE clause
product_alert_unfiltered(product) ==
    check_frame("tpv", product, execute_query(product, total_series("tpv")))

\* a loop body that queries one fixed product
product_alert_fixed(product) ==
    check_frame("tpv", "pix", execute_query("pix", product_series("pix")))

product_alert(product) ==
    check_frame("tpv", product, execute_query(product, product_series(product)))

\* the loop over the products: the first exception ends it
RECURSIVE alerts_of(_, _)
append_alert(alerts, checked, products) ==
    IF checked.status = "raised" THEN checked
    ELSE alerts_of(Append(alerts, checked.value), products)

alerts_of(alerts, products) ==
    IF products = <<>> THEN Returned(alerts)
    ELSE append_alert(alerts, product_alert(Head(products)), Tail(products))

products_checked(products) ==
    IF products.status = "raised" THEN products ELSE alerts_of(<<>>, products.value)

check_tpv_by_product == products_checked(get_unique_values)

\* a loop whose second test is an "if" of its own: a CRITICAL alert is counted
\* as normal too
tally_without_elif(summary, severity) ==
    [total_alerts |-> summary.total_alerts + 1,
     critical     |-> summary.critical + (IF severity = "CRITICAL" THEN 1 ELSE 0),
     warning      |-> summary.warning + (IF severity = "WARNING" THEN 1 ELSE 0),
     normal       |-> summary.normal + (IF severity = "WARNING" THEN 0 ELSE 1)]

\* one round of the counting loop: if CRITICAL / elif WARNING / else
tally(summary, severity) ==
    [total_alerts |-> summary.total_alerts + 1,
     critical     |-> summary.critical + (IF severity = "CRITICAL" THEN 1 ELSE 0),
     warning      |-> summary.warning
                        + (IF severity # "CRITICAL" /\ severity = "WARNING" THEN 1 ELSE 0),
     normal       |-> summary.normal
                        + (IF severity # "CRITICAL" /\ severity # "WARNING" THEN 1 ELSE 0)]

RECURSIVE count_alerts(_, _)
count_alerts(summary, all_alerts) ==
    IF all_alerts = <<>> THEN summary
    ELSE count_alerts(tally(summary, Head(all_alerts).severity), Tail(all_alerts))

summary_of(all_alerts) ==
    count_alerts([total_alerts |-> 0, critical |-> 0, warning |-> 0, normal |-> 0],
                 all_alerts)

\* a summary that keeps counting from the result of the call before
results_of_accumulating(total_tpv, transactions, by_product) ==
    IF total_tpv.status = "raised" THEN total_tpv
    ELSE IF transactions.status = "raised" THEN transactions
    ELSE IF by_product.status = "raised" THEN by_product
    ELSE Returned([total_tpv    |-> total_tpv.value,
                   transactions |-> transactions.value,
                   by_product   |-> by_product.value,
                   summary      |-> count_alerts(
                                        IF ret.op = "run_all_checks" /\ ret.out.status = "ok"
                                        THEN ret.out.value.summary
                                        ELSE [total_alerts |-> 0, critical |-> 0,
                                              warning |-> 0, normal |-> 0],
                                        <<total_tpv.value, transactions.value>>
                                            \o by_product.value)])

\* the results dictionary; an exception of a check ends the call
results_of(total_tpv, transactions, by_product) ==
    IF total_tpv.status = "raised" THEN total_tpv
    ELSE IF transactions.status = "raised" THEN transactions
    ELSE IF by_product.status = "raised" THEN by_product
    ELSE Returned([total_tpv    |-> total_tpv.value,
                   transactions |-> transactions.value,
                   by_product   |-> by_product.value,
                   summary      |-> summary_of(<<total_tpv.value, transactions.value>>
                                                 \o by_product.value)])

run_all_checks == results_of(check_total_tpv, check_transactions, check_tpv_by_product)

\* AlertSeverity.value
severity_value(sev) ==
    CASE sev = "CRITICAL" -> "critical"
      [] sev = "WARNING" -> "warning"
      [] sev = "NORMAL" -> "normal"

_get_icon(sev) ==
    CASE sev = "CRITICAL" -> "[!!!]"
      [] sev = "WARNING" -> "[!]"
      [] sev = "NORMAL" -> "[OK]"

\* a palette with yellow for warnings
_get_color_yellow(sev) ==
    CASE sev = "CRITICAL" -> "red"
      [] sev = "WARNING" -> "yellow"
      [] sev = "NORMAL" -> "green"

_get_color(sev) ==
    CASE sev = "CRITICAL" -> "red"
      [] sev = "WARNING" -> "orange"
      [] sev = "NORMAL" -> "green"

severity_order(value) ==
    CASE value = "critical" -> 0
      [] value = "warning" -> 1
      [] value = "normal" -> 2

display_record(alert) ==
    [metric     |-> alert.metric,
     dimension  |-> alert.dimension,
     severity   |-> severity_value(alert.severity),
     change_pct |-> alert.change_pct,
     z_score    |-> alert.z_score,
     message    |-> alert.message,
     icon       |-> _get_icon(alert.severity),
     color      |-> _get_color(alert.severity)]

\* a sort on the severity string itself: "critical" < "normal" < "warning"
sort_key_alphabetical(x) ==
    CASE x.severity = "critical" -> 0
      [] x.severity = "normal" -> 1
      [] x.severity = "warning" -> 2

sort_key(x) == severity_order(x.severity)

\* list.sort(key=...) is stable: x goes after every element whose key is <= its key
\* an unstable insertion: x goes before the elements of equal key
RECURSIVE InsertByKey_unstable(_, _)
InsertByKey_unstable(sorted, x) ==
    IF sorted = <<>> THEN <<x>>
    ELSE IF sort_key(Head(sorted)) < sort_key(x)
         THEN <<Head(sorted)>> \o InsertByKey_unstable(Tail(sorted), x)
         ELSE <<x>> \o sorted

RECURSIVE InsertByKey(_, _)
InsertByKey(sorted, x) ==
    IF sorted = <<>> THEN <<x>>
    ELSE IF sort_key(Head(sorted)) <= sort_key(x)
         THEN <<Head(sorted)>> \o InsertByKey(Tail(sorted), x)
         ELSE <<x>> \o sorted

RECURSIVE SortByKey(_, _)
SortByKey(done, todo) ==
    IF todo = <<>> THEN done
    ELSE SortByKey(InsertByKey(done, Head(todo)), Tail(todo))

display_alerts_of(all_alerts) ==
    [i \in 1..Len(all_alerts) |-> display_record(all_alerts[i])]

display_of(results) ==
    IF results.status = "raised" THEN results
    ELSE Returned(SortByKey(<<>>,
             display_alerts_of(<<results.value.total_tpv, results.value.transactions>>
                                  \o results.value.by_product)))

get_alerts_for_display == display_of(run_all_checks)

----------------------------------------------------------------------------
(* CloudWalkAgent *)

None == <<>>

\* if len(self.conversation_history) > 20
HistoryLimit == 20

\* what the language model does with a question: the call raises, the message
\* has no content, or the text is prose, a fenced SELECT, a SELECT in the prose,
\* or a fenced statement that is no SELECT
LlmOutcomes == {"raises", "no content", "prose", "fenced select", "bare select", "fenced other"}

\* what the store does with the generated SQL: the query raises, or the frame
\* has no rows, one float, one other value, or is a table
QueryOutcomes == {"raises", "no rows", "one float", "one value", "table"}

_generate_response(llm) ==
    IF llm = "raises" THEN Raised("APIError") ELSE Returned(llm)

\* re.search on a text that is None raises TypeError; a match counts if it
\* starts with SELECT
_extract_sql(text) ==
    IF text = "no content" THEN Raised("TypeError")
    ELSE IF text \in {"fenced select", "bare select"} THEN Returned(<<"SELECT">>)
    ELSE Returned(None)

\* the answer for a frame
answer_of(query) ==
    IF query = "no rows" THEN <<"No data found for this query.">>
    ELSE IF query = "one float" THEN <<"R$ ,.2f">>
    ELSE IF query = "one value" THEN <<"str(value)">>
    ELSE <<"llm_response">>

\* the result dictionary after the outer except
failed(error) ==
    [sql |-> None, data |-> None,
     answer |-> <<"Error processing question:", error>>, error |-> <<error>>]

\* the result dictionary when the SQL was found
queried(sql, query) ==
    IF query = "raises"
    THEN [sql |-> sql, data |-> None,
          answer |-> <<"I generated a query but it failed:", "DatabaseError">>,
          error |-> <<"SQL execution error:", "DatabaseError">>]
    ELSE [sql |-> sql, data |-> <<query>>, answer |-> answer_of(query), error |-> None]

extracted(sql, query) ==
    IF sql.status = "raised" THEN failed(sql.error)
    ELSE IF sql.value # None THEN queried(sql.value, query)
    ELSE [sql |-> None, data |-> None, answer |-> <<"llm_response">>, error |-> None]

responded(llm_response, query) ==
    IF llm_response.status = "raised" THEN failed(llm_response.error)
    ELSE extracted(_extract_sql(llm_response.value), query)

\* the dictionary ask returns
ask(question, llm, query) ==
    [question |-> question] @@ responded(_generate_response(llm), query)

\* an ask that records the exchange whatever happened
records_always(llm) == TRUE

\* the two appends are reached when neither the model call nor the extraction raised
records(llm) == llm \notin {"raises", "no content"}

\* the two messages of exchange n
exchange(n) ==
    <<[role |-> "user", content |-> <<"question", n>>],
      [role |-> "assistant", content |-> <<"llm_response", n>>]>>

\* a cut that keeps one message less
trim_short(history) ==
    IF Len(history) > HistoryLimit
    THEN SubSeq(history, Len(history) - HistoryLimit + 2, Len(history))
    ELSE history

\* self.conversation_history[-20:] once it is longer than 20
trim(history) ==
    IF Len(history) > HistoryLimit
    THEN SubSeq(history, Len(history) - HistoryLimit + 1, Len(history))
    ELSE history

AgentIdle == conversation_history = <<>> /\ exchanges = 0

----------------------------------------------------------------------------
(* Database: the connection *)

\* the threads that share one Database (check_same_thread=False)
Threads == {"t1", "t2"}

\* the n-th connection sqlite3.connect makes
Connection(n) == <<"connection", n>>

DatabaseIdle ==
    /\ _connection = None
    /\ connections = {}
    /\ created = 0
    /\ pc = [t \in Threads |-> "idle"]

----------------------------------------------------------------------------
(* Initial states: a loaded table and a constructed detector *)

Row(day, product, v) ==
    [day |-> day, product |-> product,
     amount_transacted |-> v[1], quantity_transactions |-> v[2]]

\* the tables with at most one row for each day and product
Tables(products, values) ==
    LET cells == Days \X products
        absent == <<>>
    IN  { {Row(c[1], c[2], f[c]) : c \in {x \in cells : f[x] # absent}} :
            f \in [cells -> values \cup {absent}] }

Orders(S) ==
    {o \in [1..Cardinality(S) -> S] : \A i, j \in 1..Cardinality(S) : o[i] = o[j] => i = j}

ProductsOf(table) == {r.product : r \in table}

\* the thresholds a detector is constructed with
Thresholds == {Int2Rat(0), Int2Rat(2), Int2Rat(3)}

\* warning_threshold = 2.0, critical_threshold = 3.0
DefaultThresholds == <<Int2Rat(2), Int2Rat(3)>>

\* warning_threshold = 0.5, critical_threshold = 2.0
LowThresholds == <<Rat(1, 2), Int2Rat(2)>>

\* the standard deviations and z-scores handed to the helper methods
StdInputs == {SurdNaN, SurdZero, Surd(1, Int2Rat(1)), Surd(1, Int2Rat(2)), Surd(1, Int2Rat(4))}

MeanInputs == {NaN, Int2Rat(-1), Zero, Int2Rat(1), Rat(3, 2)}

CurrentInputs == {Int2Rat(-1), Zero, Int2Rat(1), Int2Rat(3)}

ZMagnitudes == {Zero, Rat(1, 2), Int2Rat(1), Int2Rat(2), Int2Rat(4), Int2Rat(8), Int2Rat(9),
                Rat(25, 2), Int2Rat(16)}

ZInputs == {Surd(sg, q) : sg \in {-1, 1}, q \in ZMagnitudes}

DefaultInput ==
    [current |-> Int2Rat(1), mean |-> Zero, std |-> Surd(1, Int2Rat(1)),
     z_score |-> SurdZero]

NoCall == [op |-> "none", out |-> Returned(<<>>)]

\* several products, low thresholds
Init ==
    /\ rows \in {t \in Tables(ProductNames, RowValues) : Cardinality(t) <= MaxRows}
    /\ scanOrder \in Orders(ProductsOf(rows))
    /\ window = 2
    /\ warning_threshold = LowThresholds[1]
    /\ critical_threshold = LowThresholds[2]
    /\ failing = {}
    /\ input = DefaultInput
    /\ ret = NoCall
    /\ AgentIdle
    /\ DatabaseIdle

\* one product, every window, the default thresholds or a warning threshold of 0
InitSeries ==
    /\ rows \in Tables({"pix"}, SeriesValues)
    /\ scanOrder \in Orders(ProductsOf(rows))
    /\ window \in 1..MaxWindow
    /\ \E t \in {DefaultThresholds, <<Zero, Int2Rat(2)>>} :
          /\ warning_threshold = t[1]
          /\ critical_threshold = t[2]
    /\ failing = {}
    /\ input = DefaultInput
    /\ ret = NoCall
    /\ AgentIdle
    /\ DatabaseIdle

\* the helper methods on every input
InitHelpers ==
    /\ rows = {Row(1, "pix", <<0, 1>>), Row(2, "pix", <<1, 1>>), Row(3, "pix", <<2, 2>>)}
    /\ scanOrder = <<"pix">>
    /\ window = 2
    /\ warning_threshold \in Thresholds
    /\ critical_threshold \in Thresholds
    /\ failing = {}
    /\ \/ input \in [current : CurrentInputs, mean : MeanInputs, std : StdInputs,
                      z_score : {SurdZero}]
       \/ input \in [current : {Int2Rat(1)}, mean : {Zero}, std : {Surd(1, Int2Rat(1))},
                      z_score : ZInputs]
    /\ ret = NoCall
    /\ AgentIdle
    /\ DatabaseIdle

\* AnomalyDetector(window: int = 30)
DefaultWindow == 30

\* a table of one product: a first day, days of 100 up to day k, and a last day
ScenarioTable(k, first, last) ==
    {Row(1, "pix", <<first, first>>)}
        \cup {Row(d, "pix", <<100, 100>>) : d \in 2..k}
        \cup {Row(k + 1, "pix", <<last, last>>)}

\* long series of 100 with a last value that spikes, stays or drops
InitScenario ==
    /\ \E k \in 1..(DefaultWindow + 1), first \in {100, 130}, last \in {10, 100, 400} :
          rows = ScenarioTable(k, first, last)
    /\ scanOrder = <<"pix">>
    /\ window \in {2, DefaultWindow}
    /\ warning_threshold = DefaultThresholds[1]
    /\ critical_threshold = DefaultThresholds[2]
    /\ failing = {}
    /\ input = DefaultInput
    /\ ret = NoCall
    /\ AgentIdle
    /\ DatabaseIdle

\* the queries that may fail: the two totals, the product list, one product
FailurePoints == {"tpv", "txns", "distinct", "pix"}

\* rows without a product, and a store that fails on at most one query
InitFailures ==
    /\ rows \in {t \in Tables({"pix", NullProduct}, {<<1, 2>>}) : Cardinality(t) <= MaxRows}
    /\ scanOrder \in Orders(ProductsOf(rows))
    /\ window = 2
    /\ warning_threshold = LowThresholds[1]
    /\ critical_threshold = LowThresholds[2]
    /\ failing \in {F \in SUBSET FailurePoints : Cardinality(F) <= 1}
    /\ input = DefaultInput
    /\ ret = NoCall
    /\ AgentIdle
    /\ DatabaseIdle

\* a detector of the default configuration over an empty table
DetectorIdle ==
    /\ rows = {}
    /\ scanOrder = <<>>
    /\ window = DefaultWindow
    /\ warning_threshold = DefaultThresholds[1]
    /\ critical_threshold = DefaultThresholds[2]
    /\ failing = {}
    /\ input = DefaultInput

\* a constructed agent: no history
InitAgent == DetectorIdle /\ ret = NoCall /\ AgentIdle /\ DatabaseIdle

\* a constructed Database: no connection yet
InitDatabase == DetectorIdle /\ ret = NoCall /\ AgentIdle /\ DatabaseIdle

----------------------------------------------------------------------------
(* The calls *)

Call(op, out) ==
    /\ ret' = [op |-> op, out |-> out]
    /\ UNCHANGED <<detectorVars, agentVars, databaseVars>>

CalculateZScore ==
    Call("_calculate_z_score",
         Returned(_calculate_z_score(input.current, input.mean, input.std)))

GetSeverity == Call("_get_severity", Returned(_get_severity(input.z_score)))

CheckTotalTpv == Call("check_total_tpv", check_total_tpv)

CheckTransactions == Call("check_transactions", check_transactions)

CheckTpvByProduct == Call("check_tpv_by_product", check_tpv_by_product)

RunAllChecks == Call("run_all_checks", run_all_checks)

GetAlertsForDisplay == Call("get_alerts_for_display", get_alerts_for_display)

Next ==
    \/ CalculateZScore
    \/ GetSeverity
    \/ CheckTotalTpv
    \/ CheckTransactions
    \/ CheckTpvByProduct
    \/ RunAllChecks
    \/ GetAlertsForDisplay

Spec == Init /\ [][Next]_vars

SpecSeries == InitSeries /\ [][Next]_vars

SpecHelpers == InitHelpers /\ [][Next]_vars

SpecScenario == InitScenario /\ [][Next]_vars

SpecFailures == InitFailures /\ [][Next]_vars

\* CloudWalkAgent.ask: the exchange is recorded unless the model call or the
\* extraction raised, and the history is cut to its last 20 messages
Ask ==
    \E llm \in LlmOutcomes, query \in QueryOutcomes :
        /\ exchanges < MaxExchanges
        /\ ret' = [op |-> "ask", llm |-> llm, query |-> query,
                   out |-> Returned(ask(<<"question", exchanges + 1>>, llm, query))]
        /\ IF records(llm)
           THEN /\ conversation_history' = trim(conversation_history \o exchange(exchanges + 1))
                /\ exchanges' = exchanges + 1
           ELSE UNCHANGED agentVars
        /\ UNCHANGED <<detectorVars, databaseVars>>

\* CloudWalkAgent.clear_history
ClearHistory ==
    /\ conversation_history' = <<>>
    /\ ret' = [op |-> "clear_history", out |-> Returned(None)]
    /\ UNCHANGED <<detectorVars, exchanges, databaseVars>>

NextAgent == Ask \/ ClearHistory

SpecAgent == InitAgent /\ [][NextAgent]_vars

\* Database.connect up to its test: the stored connection is returned, or the
\* thread goes on to open one
Connect(t) ==
    /\ pc[t] = "idle"
    /\ IF _connection = None
       THEN /\ pc' = [pc EXCEPT ![t] = "connect"]
            /\ UNCHANGED <<ret, _connection, connections, created>>
       ELSE /\ ret' = [op |-> "connect", thread |-> t, out |-> Returned(_connection)]
            /\ UNCHANGED databaseVars
    /\ UNCHANGED <<detectorVars, agentVars>>

\* Database.execute_query: conn = self.connect(), then the query on conn
ExecuteQuery(t) ==
    /\ pc[t] = "idle"
    /\ IF _connection = None
       THEN /\ pc' = [pc EXCEPT ![t] = "execute_query"]
            /\ UNCHANGED <<ret, _connection, connections, created>>
       ELSE /\ ret' = [op |-> "execute_query", thread |-> t, out |-> Returned(<<"frame">>)]
            /\ UNCHANGED databaseVars
    /\ UNCHANGED <<detectorVars, agentVars>>

\* the rest of Database.connect: self._connection = sqlite3.connect(...)
Open(t) ==
    /\ pc[t] # "idle"
    /\ created < MaxConnections
    /\ created' = created + 1
    /\ connections' = connections \cup {Connection(created + 1)}
    /\ _connection' = Connection(created + 1)
    /\ pc' = [pc EXCEPT ![t] = "idle"]
    /\ ret' = [op |-> pc[t], thread |-> t,
               out |-> Returned(IF pc[t] = "connect" THEN Connection(created + 1)
                                ELSE <<"frame">>)]
    /\ UNCHANGED <<detectorVars, agentVars>>

\* Database.close
Close(t) ==
    /\ pc[t] = "idle"
    /\ IF _connection # None
       THEN /\ connections' = connections \ {_connection}
            /\ _connection' = None
       ELSE UNCHANGED <<_connection, connections>>
    /\ ret' = [op |-> "close", thread |-> t, out |-> Returned(None)]
    /\ UNCHANGED <<detectorVars, agentVars, created, pc>>

NextDatabase == \E t \in Threads : Connect(t) \/ ExecuteQuery(t) \/ Open(t) \/ Close(t)

SpecDatabase == InitDatabase /\ [][NextDatabase]_vars

----------------------------------------------------------------------------
(* Properties *)

Displayed == ret.op = "get_alerts_for_display" /\ ret.out.status = "ok"

\* the rank the ranking law gives a displayed severity
RankOf(severity) ==
    IF severity = "critical" THEN 0 ELSE IF severity = "warning" THEN 1 ELSE 2

\* the place of a display record in the order the checks are evaluated
RECURSIVE IndexIn(_, _)
IndexIn(seq, x) == IF Head(seq) = x THEN 1 ELSE 1 + IndexIn(Tail(seq), x)

EvaluationPlace(rec) ==
    IF rec.dimension = "total"
    THEN (IF rec.metric = "tpv" THEN 1 ELSE 2)
    ELSE 2 + IndexIn(scanOrder, rec.dimension)

\* C1: when all checks succeed, the list get_alerts_for_display() returns is ordered
\* by severity rank: every adjacent pair (a, b) has rank(a) <= rank(b), with
\* critical = 0, warning = 1, normal = 2.
C1_DisplayRanked ==
    Displayed =>
        \A i \in 1..(Len(ret.out.value) - 1) :
            RankOf(ret.out.value[i].severity) <= RankOf(ret.out.value[i + 1].severity)

\* a display of three severities in which the sort moved a record: the first check
\* evaluated (total TPV) is not critical and a critical record is shown first
C1_Witness ==
    /\ Displayed
    /\ Len(ret.out.value) >= 4
    /\ {ret.out.value[i].severity : i \in 1..Len(ret.out.value)}
          = {"critical", "warning", "normal"}
    /\ EvaluationPlace(ret.out.value[1]) > 1

\* C2: the severity sort is stable: two display records of the same severity appear
\* in their evaluation order (total TPV, total transactions, then the products in
\* the order they were discovered).
C2_DisplayStable ==
    Displayed =>
        \A i, j \in 1..Len(ret.out.value) :
            (i < j /\ ret.out.value[i].severity = ret.out.value[j].severity)
                => EvaluationPlace(ret.out.value[i]) < EvaluationPlace(ret.out.value[j])

\* two records of one severity keep their order although a record evaluated
\* between them was moved in front of both
C2_Witness ==
    /\ Displayed
    /\ \E i, j, k \in 1..Len(ret.out.value) :
          /\ k < i /\ i < j
          /\ ret.out.value[i].severity = ret.out.value[j].severity
          /\ EvaluationPlace(ret.out.value[i]) < EvaluationPlace(ret.out.value[k])
          /\ EvaluationPlace(ret.out.value[k]) < EvaluationPlace(ret.out.value[j])
    /\ scanOrder = <<"pos", "pix">>

----------------------------------------------------------------------------
(* The helper methods *)

\* |z| >= t, in integers: z = s * sqrt(qn/qd) and t = tn/td
AbsAtLeast(z, t) == t.n <= 0 \/ z.q.n * t.d * t.d >= t.n * t.n * z.q.d

SeverityByMagnitude(z) ==
    IF AbsAtLeast(z, critical_threshold) THEN "CRITICAL"
    ELSE IF AbsAtLeast(z, warning_threshold) THEN "WARNING"
    ELSE "NORMAL"

Negated(z) == [s |-> -z.s, q |-> z.q]

C4_ZScore ==
    ret.op = "_calculate_z_score" =>
        LET c == input.current
            m == input.mean
            v == input.std.q
            z == ret.out.value
        IN  IF IsNaN(v) \/ v.n = 0 THEN z = SurdZero
            ELSE IF IsNaN(m) THEN SurdIsNaN(z)
            ELSE /\ z.q.d # 0
                 /\ z.s = Sign(c.n * m.d - m.n * c.d)
                 /\ z.q.n * v.n * (c.d * m.d) * (c.d * m.d)
                      = z.q.d * v.d * (c.n * m.d - m.n * c.d) * (c.n * m.d - m.n * c.d)

\* a zero std with current above the mean gives exactly 0
C4_Witness ==
    /\ ret.op = "_calculate_z_score"
    /\ SurdIsZero(input.std)
    /\ input.current = Int2Rat(3)
    /\ input.mean = Int2Rat(1)
    /\ ret.out.value = SurdZero

Tier(severity) ==
    IF severity = "NORMAL" THEN 0 ELSE IF severity = "WARNING" THEN 1 ELSE 2

\* C6: for fixed thresholds severity is monotonic in |z_score|: if |z1| <= |z2| the
\* tier of z2 (NORMAL < WARNING < CRITICAL) is never lower than that of z1.
C6_SeverityMonotonic ==
    ret.op = "_get_severity" =>
        \A z2 \in ZInputs :
            input.z_score.q.n * z2.q.d <= z2.q.n * input.z_score.q.d
                => Tier(ret.out.value) <= Tier(_get_severity(z2))

\* a positive z-score rated WARNING while a negative z-score of larger magnitude
\* is rated CRITICAL and one of smaller magnitude NORMAL
C6_Witness ==
    /\ ret.op = "_get_severity"
    /\ ret.out.value = "WARNING"
    /\ input.z_score.s > 0
    /\ \E z1, z2 \in ZInputs :
          /\ z1.s < 0 /\ z2.s < 0
          /\ RLe(z1.q, input.z_score.q) /\ RLe(input.z_score.q, z2.q)
          /\ _get_severity(z1) = "NORMAL"
          /\ _get_severity(z2) = "CRITICAL"

----------------------------------------------------------------------------
(* The checks *)

\* the Alerts the last call returned
AlertsReturned ==
    IF ret.out.status # "ok" THEN {}
    ELSE IF ret.op \in {"check_total_tpv", "check_transactions"} THEN {ret.out.value}
    ELSE IF ret.op = "check_tpv_by_product"
         THEN {ret.out.value[i] : i \in 1..Len(ret.out.value)}
    ELSE IF ret.op = "run_all_checks"
         THEN {ret.out.value.total_tpv, ret.out.value.transactions}
                \cup {ret.out.value.by_product[i] : i \in 1..Len(ret.out.value.by_product)}
    ELSE {}

\* the series an Alert was computed from
SeriesOf(alert) ==
    IF alert.metric = "transactions" THEN total_series("txns")
    ELSE IF alert.dimension = "total" THEN total_series("tpv")
    ELSE product_series(alert.dimension)

\* the position whose window a check uses: the second-to-last one, or the only one
EvaluationPoint(s) == IF Len(s) >= 2 THEN Len(s) - 1 ELSE 1

\* no standard deviation exists at the evaluation point
StdUndefined(s) == EvaluationPoint(s) < window \/ window < 2

\* the window ending at the evaluation point holds one value only
StdIsZero(s) ==
    /\ ~StdUndefined(s)
    /\ \A i, j \in (EvaluationPoint(s) - window + 1)..EvaluationPoint(s) : s[i] = s[j]

NonNegative(s) == \A i \in 1..Len(s) : s[i] >= 0

\* C5 as claimed: for every threshold configuration with warning_threshold <=
\* critical_threshold, a check whose standard deviation at the evaluation point is
\* zero or undefined, or whose expected value is zero, returns an Alert with
\* z_score = 0 and severity NORMAL.
C5_AsClaimed ==
    \A a \in AlertsReturned :
        (/\ RLe(warning_threshold, critical_threshold)
         /\ \/ StdUndefined(SeriesOf(a))
            \/ StdIsZero(SeriesOf(a))
            \/ a.expected_value = Zero)
        => a.z_score = SurdZero /\ a.severity = "NORMAL"

\* C5 amended: for every non-empty series and every threshold configuration with
\* 0 < warning_threshold <= critical_threshold, a check whose standard deviation at
\* the evaluation point is zero or undefined, or whose expected value is zero on a
\* series without negative values, returns an Alert with z_score = 0 and severity
\* NORMAL.
C5_AbsorbedToNormal ==
    \A a \in AlertsReturned :
        (/\ warning_threshold.n > 0
         /\ RLe(warning_threshold, critical_threshold)
         /\ \/ StdUndefined(SeriesOf(a))
            \/ StdIsZero(SeriesOf(a))
            \/ a.expected_value = Zero /\ NonNegative(SeriesOf(a)))
        => a.z_score = SurdZero /\ a.severity = "NORMAL"

\* a constant window of `window` values followed by a different last value, rated
\* NORMAL with z_score 0 under positive thresholds
C5_Witness ==
    /\ warning_threshold.n > 0
    /\ \E a \in AlertsReturned :
          /\ StdIsZero(SeriesOf(a))
          /\ Len(SeriesOf(a)) = window + 1
          /\ a.current_value # a.expected_value
          /\ a.z_score = SurdZero /\ a.severity = "NORMAL"

\* C7: change_pct is (current - expected) / expected * 100 when expected is not
\* zero and exactly 0 when expected is zero, for any current value.
C7_ChangePct ==
    \A a \in AlertsReturned :
        LET c == a.current_value
            e == a.expected_value
            p == a.change_pct
        IN  IF e = Zero THEN p = Zero
            ELSE IF IsNaN(e) THEN IsNaN(p)
            ELSE /\ p.d # 0
                 /\ p.n * e.n * c.d = p.d * 100 * (c.n * e.d - e.n * c.d)

\* an expected value of zero with a non-zero current value, and change_pct 0
C7_Witness ==
    \E a \in AlertsReturned :
        /\ a.expected_value = Zero
        /\ a.current_value.n > 0
        /\ a.change_pct = Zero

WithLast(s, v) == [s EXCEPT ![Len(s)] = v]

\* C8: for a series of at least two entries, the expected value and the standard
\* deviation are the rolling statistics of the window ending at the second-to-last
\* observation: changing only the last value of the series changes neither.
C8_ExpectedExcludesCurrent ==
    \A a \in AlertsReturned :
        LET s == SeriesOf(a)
        IN  Len(s) >= 2 =>
              /\ Len(s) - 1 >= window =>
                    a.expected_value.n * window
                        = a.expected_value.d * SeqSum(s, Len(s) - window, Len(s) - 1)
              /\ \A v \in {-1, 0, 1, 2, 5} :
                    /\ evaluate(WithLast(s, v)).expected = a.expected_value
                    /\ evaluate(WithLast(s, v)).prev_std = evaluate(s).prev_std

\* a defined expected value that the current value lies above
C8_Witness ==
    \E a \in AlertsReturned :
        /\ Len(SeriesOf(a)) = window + 1
        /\ ~IsNaN(a.expected_value)
        /\ a.z_score.s > 0
        /\ a.current_value.n > 0

\* C9 as claimed: the rolling statistics use a growing window, so a defined mean
\* exists at every position of a non-empty series: the mean of the observations
\* available there, up to `window` of them.
C9_GrowingWindow ==
    \A a \in AlertsReturned :
        LET s == SeriesOf(a)
        IN  \A i \in 1..Len(s) :
              LET from == IF i - window + 1 < 1 THEN 1 ELSE i - window + 1
                  mean == rolling_mean(s, window, i)
              IN  /\ ~IsNaN(mean)
                  /\ mean.n * (i - from + 1) = mean.d * SeqSum(s, from, i)

\* C10 as claimed: a check on a series with exactly one entry v returns an Alert
\* with expected_value = v, change_pct = 0, z_score = 0 and severity NORMAL, for
\* every window size.
C10_SinglePoint ==
    \A a \in AlertsReturned :
        Len(SeriesOf(a)) = 1 =>
            /\ a.expected_value = Int2Rat(SeriesOf(a)[1])
            /\ a.change_pct = Zero
            /\ a.z_score = SurdZero
            /\ a.severity = "NORMAL"

\* 29 values of 100 followed by 400
IsSpikeScenario(s) ==
    /\ Len(s) = DefaultWindow
    /\ \A i \in 1..(DefaultWindow - 1) : s[i] = 100
    /\ s[DefaultWindow] = 400

\* C11 as claimed: with window = 30, warning_threshold = 2.0 and critical_threshold
\* = 3.0, a series of 29 values of 100 followed by 400 yields an Alert with a
\* positive z_score of at least 3, a change_pct of +300, severity CRITICAL and the
\* direction word "spiked".
C11_SpikeScenario ==
    \A a \in AlertsReturned :
        /\ window = DefaultWindow
        /\ warning_threshold = Int2Rat(2)
        /\ critical_threshold = Int2Rat(3)
        /\ IsSpikeScenario(SeriesOf(a))
        => /\ a.z_score.s > 0
           /\ RLe(Int2Rat(9), a.z_score.q)
           /\ a.change_pct = Int2Rat(300)
           /\ a.severity = "CRITICAL"
           /\ a.message.direction = "spiked"

\* the latest value lies below the mean of the window at the evaluation point,
\* at least t standard deviations away from it (squares compared, w >= 2):
\* t^2 * var <= (mean - current)^2
StdsBelow(s, t) ==
    LET w == window
        p == EvaluationPoint(s)
        S == SeqSum(s, p - w + 1, p)
        Q == SeqSumSq(s, p - w + 1, p)
        c == s[Len(s)]
    IN  /\ w * c < S
        /\ t.n * t.n * (w * Q - S * S) * w <= (S - w * c) * (S - w * c) * t.d * t.d * (w - 1)

\* C12: the direction word of every Alert message is "dropped" exactly when
\* z_score < 0 and "spiked" otherwise, z_score = 0 included; a latest value that
\* lies at least warning_threshold and less than critical_threshold standard
\* deviations below the expected value yields severity WARNING with "dropped".
C12_Direction ==
    \A a \in AlertsReturned :
        /\ a.message.direction = "dropped" <=> a.z_score.s < 0
        /\ a.message.direction = "spiked" <=> a.z_score.s >= 0
        /\ LET s == SeriesOf(a)
           IN  /\ ~StdUndefined(s)
               /\ ~StdIsZero(s)
               /\ warning_threshold.n > 0
               /\ StdsBelow(s, warning_threshold)
               /\ ~StdsBelow(s, critical_threshold)
               => /\ a.severity = "WARNING"
                  /\ a.message.direction = "dropped"

\* a WARNING that says "dropped" for a drop between 2 and 3 standard deviations
C12_Witness ==
    /\ warning_threshold = Int2Rat(2)
    /\ critical_threshold = Int2Rat(3)
    /\ ret.op = "check_tpv_by_product"
    /\ \E a \in AlertsReturned :
          /\ ~StdUndefined(SeriesOf(a))
          /\ StdsBelow(SeriesOf(a), warning_threshold)
          /\ ~StdsBelow(SeriesOf(a), critical_threshold)
          /\ a.severity = "WARNING"
          /\ a.message.direction = "dropped"

RanAllChecks == ret.op = "run_all_checks" /\ ret.out.status = "ok"

\* the upper-cased spelling the label rule asks for
UpperCased(str) ==
    IF str = "tpv" THEN "TPV"
    ELSE IF str = "transactions" THEN "TRANSACTIONS"
    ELSE IF str = "pix" THEN "PIX"
    ELSE IF str = "pos" THEN "POS"
    ELSE "?"

\* the parts of a message after its label: the direction word, |change_pct|, the
\* z_score and the current and expected values of the Alert
CarriesNumbers(a) ==
    /\ a.message.direction \in {"dropped", "spiked"}
    /\ a.message.change.d = a.change_pct.d
    /\ a.message.change.n >= 0
    /\ a.message.change.n * a.message.change.n = a.change_pct.n * a.change_pct.n
    /\ a.message.z_score = a.z_score
    /\ a.message.current = a.current_value
    /\ a.message.expected = a.expected_value

\* "Total <METRIC>" or "<METRIC> for <DIMENSION>", values as currency with two decimals
FollowsLabelRule(a) ==
    /\ a.message.label = IF a.dimension = "total"
                         THEN <<"Total", UpperCased(a.metric)>>
                         ELSE <<UpperCased(a.metric), "for", UpperCased(a.dimension)>>
    /\ CarriesNumbers(a)
    /\ a.message.format = "R$ ,.2f"

\* C13 as claimed: the message of every Alert produced by run_all_checks follows
\* one label rule, "Total <METRIC>" for dimension "total" and "<METRIC> for
\* <DIMENSION>" otherwise, with current and expected values as currency with two
\* decimals; the total TPV alert, the total transactions alert and every
\* per-product alert alike.
C13_AsClaimed == RanAllChecks => \A a \in AlertsReturned : FollowsLabelRule(a)

\* C13: the message of every TPV Alert produced by run_all_checks (the total one
\* and every per-product one) follows the label rule with currency values; the
\* message of the total transactions Alert begins with "Transaction count" and
\* gives its current and expected values as whole numbers without a currency.
C13_LabelRule ==
    RanAllChecks =>
        \A a \in AlertsReturned :
            IF a.metric = "tpv" THEN FollowsLabelRule(a)
            ELSE /\ a.metric = "transactions"
                 /\ a.message.label = <<"Transaction", "count">>
                 /\ CarriesNumbers(a)
                 /\ a.message.format = ",.0f"

\* a result with a total TPV alert, a transactions alert and alerts of two products
C13_Witness ==
    /\ RanAllChecks
    /\ \E a, b, c, d \in AlertsReturned :
          /\ a.message.label = <<"Total", "TPV">>
          /\ b.message.label = <<"Transaction", "count">>
          /\ c.message.label = <<"TPV", "for", "PIX">>
          /\ d.message.label = <<"TPV", "for", "POS">>

\* C14: when all checks succeed, run_all_checks produces exactly one total-TPV
\* Alert, exactly one total-transactions Alert and exactly one TPV Alert for each
\* distinct product present in the rows: k products give k per-product alerts
\* with pairwise distinct dimensions, 2 + k alerts in total.
C14_OneAlertPerProduct ==
    RanAllChecks =>
        LET r == ret.out.value
            k == Cardinality({x.product : x \in rows})
        IN  /\ r.total_tpv.metric = "tpv" /\ r.total_tpv.dimension = "total"
            /\ r.transactions.metric = "transactions" /\ r.transactions.dimension = "total"
            /\ Len(r.by_product) = k
            /\ \A i \in 1..k :
                  /\ r.by_product[i].metric = "tpv"
                  /\ r.by_product[i].dimension \in {x.product : x \in rows}
            /\ \A i, j \in 1..k :
                  r.by_product[i].dimension = r.by_product[j].dimension => i = j
            /\ r.summary.total_alerts = 2 + k
            /\ Cardinality(AlertsReturned) = 2 + k

\* a result over rows of two products
C14_Witness ==
    /\ RanAllChecks
    /\ {x.product : x \in rows} = {"pix", "pos"}
    /\ Len(ret.out.value.by_product) = 2

\* the alerts of a result in the order of evaluation
AllAlerts(r) == <<r.total_tpv, r.transactions>> \o r.by_product

NumberWith(alerts, severity) ==
    Cardinality({i \in 1..Len(alerts) : alerts[i].severity = severity})

\* C15: in every result of run_all_checks, summary.total_alerts is the number of
\* Alerts produced (2 plus the per-product alerts), summary.critical, warning and
\* normal are the numbers of those Alerts with that severity, and total_alerts =
\* critical + warning + normal.
C15_SummaryCounts ==
    RanAllChecks =>
        LET r == ret.out.value
        IN  /\ r.summary.total_alerts = 2 + Len(r.by_product)
            /\ r.summary.critical = NumberWith(AllAlerts(r), "CRITICAL")
            /\ r.summary.warning = NumberWith(AllAlerts(r), "WARNING")
            /\ r.summary.normal = NumberWith(AllAlerts(r), "NORMAL")
            /\ r.summary.total_alerts
                  = r.summary.critical + r.summary.warning + r.summary.normal

\* a result with alerts of all three severities
C15_Witness ==
    /\ RanAllChecks
    /\ ret.out.value.summary.critical >= 1
    /\ ret.out.value.summary.warning >= 1
    /\ ret.out.value.summary.normal >= 1

\* what an Alert and its display record have in common
Shown(x) == <<x.metric, x.dimension, x.z_score, x.change_pct, x.message>>

Orchestrated == ret.op \in {"run_all_checks", "get_alerts_for_display"}

\* the records or alerts an orchestrating call handed back
HandedBack ==
    IF ret.out.status # "ok" THEN {}
    ELSE IF ret.op = "get_alerts_for_display"
         THEN {Shown(ret.out.value[i]) : i \in 1..Len(ret.out.value)}
    ELSE {Shown(a) : a \in AlertsReturned}

\* C17 as claimed: if one single check fails (its query fails or returns no
\* rows), the remaining checks still run and their Alerts are still returned by
\* run_all_checks and get_alerts_for_display.
C17_Isolation ==
    Orchestrated =>
        /\ check_total_tpv.status = "ok" => Shown(check_total_tpv.value) \in HandedBack
        /\ check_transactions.status = "ok" => Shown(check_transactions.value) \in HandedBack

\* the slices a call queries
Reads(op) ==
    IF op = "check_total_tpv" THEN {"tpv"}
    ELSE IF op = "check_transactions" THEN {"txns"}
    ELSE IF op = "check_tpv_by_product"
         THEN {"distinct"} \cup {scanOrder[i] : i \in 1..Len(scanOrder)}
    ELSE IF Orchestrated
         THEN {"tpv", "txns", "distinct"} \cup {scanOrder[i] : i \in 1..Len(scanOrder)}
    ELSE {}

\* some slice has no rows: the table is empty or lists a product that is NULL
SomeSliceEmpty == rows = {} \/ \E r \in rows : r.product = NullProduct

\* C18: a data-access failure of the store during a check is never swallowed or
\* replaced by default values: a call that queries a failing slice ends in an
\* error and hands back no Alert, and the error is the one of the store unless an
\* empty slice ended the call first.
C18_FailureReachesCaller ==
    Reads(ret.op) \cap failing # {} =>
        /\ ret.out.status = "raised"
        /\ AlertsReturned = {}
        /\ HandedBack = {}
        /\ ret.out.error # "DatabaseError" => SomeSliceEmpty

\* the failure of one product's query reaches the caller of get_alerts_for_display
C18_Witness ==
    /\ ret.op = "get_alerts_for_display"
    /\ failing = {"pix"}
    /\ ~SomeSliceEmpty
    /\ ret.out = Raised("DatabaseError")

\* C19 as claimed: a detector with warning_threshold > critical_threshold is never
\* constructed, so no check ever runs on thresholds that violate
\* warning_threshold <= critical_threshold.
C19_ThresholdsValidated ==
    ret.op \in {"check_total_tpv", "check_transactions", "check_tpv_by_product",
                "run_all_checks", "get_alerts_for_display"}
        => RLe(warning_threshold, critical_threshold)

\* the rows a check on a metric and slice reads
SliceOf(op, product) ==
    IF op = "check_tpv_by_product" THEN {r \in rows : r.product = product} ELSE rows

\* C20: a check whose series has zero entries ends in an error outcome and
\* returns no Alert: a total check on an empty table, a per-product check when a
\* listed product matches no row; and every Alert returned comes from a series
\* with at least one entry.
C20_EmptySeries ==
    /\ ret.op \in {"check_total_tpv", "check_transactions"} /\ rows = {} =>
          ret.out.status = "raised" /\ AlertsReturned = {}
    /\ ret.op = "check_tpv_by_product" /\ (\E r \in rows : r.product = NullProduct) =>
          ret.out.status = "raised" /\ AlertsReturned = {}
    /\ ret.op \in {"check_total_tpv", "check_transactions", "check_tpv_by_product"} =>
          \A a \in AlertsReturned : SliceOf(ret.op, a.dimension) # {}

\* the check of a NULL product finds no rows and raises, the store working
C20_Witness ==
    /\ ret.op = "check_tpv_by_product"
    /\ failing = {}
    /\ \E r \in rows : r.product = NullProduct
    /\ \E r \in rows : r.product = "pix"
    /\ ret.out = Raised("IndexError")

\* C21: each per-product Alert depends only on that product's own rows and the
\* configuration: it is the Alert of the daily series of the rows of its product
\* alone, whatever rows the other products have and in whatever order the
\* products are evaluated.
C21_OwnSeriesOnly ==
    \A a \in AlertsReturned :
        a.metric = "tpv" /\ a.dimension # "total" =>
            a = tpv_alert(a.dimension,
                          evaluate(GroupByDay({r \in rows : r.product = a.dimension}, "tpv", 1)))

\* two products evaluated pos first, with different alerts
C21_Witness ==
    /\ ret.op = "check_tpv_by_product"
    /\ ret.out.status = "ok"
    /\ scanOrder = <<"pos", "pix">>
    /\ Len(ret.out.value) = 2
    /\ ret.out.value[1].dimension = "pos"
    /\ ret.out.value[1].current_value # ret.out.value[2].current_value
    /\ ret.out.value[1].severity # ret.out.value[2].severity

\* the display values of a severity
DisplayOf(severity) ==
    IF severity = "CRITICAL" THEN <<"critical", "[!!!]", "red">>
    ELSE IF severity = "WARNING" THEN <<"warning", "[!]", "orange">>
    ELSE <<"normal", "[OK]", "green">>

Shows(rec, a) ==
    /\ Shown(rec) = Shown(a)
    /\ <<rec.severity, rec.icon, rec.color>> = DisplayOf(a.severity)

\* C22: get_alerts_for_display returns one display record for each Alert of a
\* fresh run_all_checks, a permutation of them, each with the metric, dimension,
\* change_pct, z_score and message of its Alert, a severity among "critical",
\* "warning", "normal" and the icon and color of that severity.
C22_DisplayRecords ==
    Displayed =>
        /\ run_all_checks.status = "ok"
        /\ Len(ret.out.value) = Len(AllAlerts(run_all_checks.value))
        /\ \E p \in Orders(1..Len(ret.out.value)) :
              \A i \in 1..Len(ret.out.value) :
                  Shows(ret.out.value[i], AllAlerts(run_all_checks.value)[p[i]])
        /\ \A i \in 1..Len(ret.out.value) :
              ret.out.value[i].severity \in {"critical", "warning", "normal"}

\* four records, a red one and an orange one among them
C22_Witness ==
    /\ Displayed
    /\ Len(ret.out.value) = 4
    /\ \E i, j \in 1..4 :
          /\ ret.out.value[i].color = "red"
          /\ ret.out.value[j].color = "orange"

\* C23: with positive thresholds, a check on a series of 1 to window entries
\* yields z_score 0 and severity NORMAL whatever its last value is; a WARNING or
\* CRITICAL comes only from a series of at least window + 1 entries.
C23_ShortSeriesNormal ==
    \A a \in AlertsReturned :
        warning_threshold.n > 0 /\ critical_threshold.n > 0 =>
            /\ Len(SeriesOf(a)) <= window =>
                  a.z_score = SurdZero /\ a.severity = "NORMAL"
            /\ a.severity # "NORMAL" => Len(SeriesOf(a)) >= window + 1

\* a series of window entries that ends far from the entries before it
C23_Witness ==
    /\ warning_threshold.n > 0
    /\ window >= 2
    /\ \E a \in AlertsReturned :
          /\ Len(SeriesOf(a)) = window
          /\ SeriesOf(a)[1] = -1
          /\ SeriesOf(a)[window] = 2
          /\ a.severity = "NORMAL"

\* C24 as claimed: in every Alert (with a defined expected value) the direction
\* word agrees with the sign of the change: "dropped" exactly when current_value
\* < expected_value, "spiked" only when current_value >= expected_value.
C24_DirectionMatchesChange ==
    \A a \in AlertsReturned :
        IsNaN(a.expected_value) \/
        /\ a.message.direction = "dropped"
              <=> /\ RLe(a.current_value, a.expected_value)
                  /\ a.current_value # a.expected_value
        /\ a.message.direction = "spiked" => RLe(a.expected_value, a.current_value)

\* at most 20 messages, an even number, user and assistant in turn, and they
\* are the latest recorded exchanges in their order
HistoryShape ==
    LET h == conversation_history
        n == Len(h)
    IN  /\ n <= 20
        /\ n % 2 = 0
        /\ \A i \in 1..n : h[i].role = IF i % 2 = 1 THEN "user" ELSE "assistant"
        /\ \A k \in 1..(n \div 2) :
              /\ h[2 * k - 1].content = <<"question", exchanges - (n \div 2) + k>>
              /\ h[2 * k].content = <<"llm_response", exchanges - (n \div 2) + k>>
        /\ ret.op = "clear_history" => h = <<>>

\* C25: after any sequence of ask and clear_history calls conversation_history
\* holds at most 20 messages, has even length, alternates user and assistant
\* messages and consists of the most recent recorded exchanges in order (an ask
\* that records drops no more than the limit of 20 forces); clear_history
\* leaves it empty.
C25_History ==
    /\ []HistoryShape
    /\ [][exchanges' = exchanges + 1 =>
             Len(conversation_history')
                 = IF Len(conversation_history) + 2 > 20 THEN 20
                   ELSE Len(conversation_history) + 2]_vars

\* a history of 20 messages whose oldest exchanges were cut off
C25_Witness ==
    /\ ret.op = "ask"
    /\ Len(conversation_history) = 20
    /\ conversation_history[1].content # <<"question", 1>>
    /\ conversation_history[20].content = <<"llm_response", exchanges>>

\* the model call failed: it raised, or its message had no content
ModelFailed(r) == r.llm \in {"raises", "no content"}

\* the model answered with a SELECT and the store raised on it
QueryFailed(r) == r.llm \in {"fenced select", "bare select"} /\ r.query = "raises"

\* C26: ask never raises: every failure comes back in result["error"] with a
\* non-empty result["answer"]; when the model call fails, conversation_history
\* is unchanged and sql and data stay None; when only the SQL fails, the
\* exchange is still appended and data stays None.
C26_AskNeverRaises ==
    /\ [](ret.op = "ask" =>
            /\ ret.out.status = "ok"
            /\ ret.out.value.answer # <<>>
            /\ ModelFailed(ret) \/ QueryFailed(ret) <=> ret.out.value.error # <<>>
            /\ ModelFailed(ret) => ret.out.value.sql = <<>> /\ ret.out.value.data = <<>>
            /\ QueryFailed(ret) => ret.out.value.sql # <<>> /\ ret.out.value.data = <<>>)
    /\ [][ret'.op = "ask" =>
             /\ ModelFailed(ret') => conversation_history' = conversation_history
             /\ QueryFailed(ret') =>
                   /\ exchanges' = exchanges + 1 \/ UNCHANGED vars
                   /\ Len(conversation_history') >= 2
                   /\ conversation_history'[Len(conversation_history') - 1]
                         = [role |-> "user", content |-> ret'.out.value.question]
                   /\ conversation_history'[Len(conversation_history')].role = "assistant"]_vars

\* an ask whose SQL failed, with its error, recorded as the only exchange
C26_Witness ==
    /\ ret.op = "ask"
    /\ QueryFailed(ret)
    /\ ret.out.value.error = <<"SQL execution error:", "DatabaseError">>
    /\ Len(conversation_history) = 2

\* C27 as claimed: a Database holds at most one open connection at a time, the
\* stored one, also when two threads call connect at once on an instance that
\* is not connected yet; after close the stored connection is None.
C27_SingleConnection ==
    /\ Cardinality(connections) <= 1
    /\ _connection # None => connections = {_connection}
    /\ ret.op = "close" => _connection = None

====
